---- MODULE Spec2Model ----
(***************************************************************************)
(* SenseMesh orchestrator (server/index.js): the presence map activeUsers, *)
(* the socket.io event handlers registered per connection, and the         *)
(* senseFuseProcess transformation pipeline with its awaited inference     *)
(* calls.  Strings whose characters matter (contents, transcripts, labels) *)
(* are sequences of one-character strings.                                 *)
(***************************************************************************)
EXTENDS Integers, Sequences, FiniteSets, TLC

\* Bounds of the model: connections that may ever open, handler invocations
\* that may ever be issued.
MaxSockets == 2
MaxTasks == 2

SocketName == <<"s1", "s2", "s3", "s4", "s5">>
SocketIds == {SocketName[i] : i \in 1..MaxSockets}

\* ------------------------------------------------------------------ inputs

\* The pipeline compares the disability with 'deaf' and 'blind' only; "none"
\* stands for every other value a profile may carry ("mute" included).
Disabilities == {"deaf", "blind", "none"}
\* The object a client sends with join_mesh: { name, disability }.
Profiles == [name : {"user"}, disability : Disabilities]

\* The { content, type } of a send_message payload: a text of length 2 and one
\* of length 3 (the text rule tests content.length > 2), a recording, a picture.
Base64Blob == <<"d", "a", "t", "a", ":">>
Payloads == {[content |-> <<"h", "i">>, type |-> "text"],
             [content |-> <<"h", "e", "y">>, type |-> "text"],
             [content |-> Base64Blob, type |-> "audio"],
             [content |-> Base64Blob, type |-> "image"]}

\* What the inference service may answer.  A call either rejects (ok = FALSE)
\* or resolves with a well-formed body carrying the field the handler reads.
Failure == [ok |-> FALSE, data |-> <<>>]
Success(d) == [ok |-> TRUE, data |-> d]
Transcripts == {<<"h", "e", "l", "l", "o">>}
Emotions == {<<"h", "a", "p", "p", "y">>}
Descriptions == {<<"a", " ", "r", "e", "d", " ", "c", "a", "r">>}
Unknown == <<"U", "n", "k", "n", "o", "w", "n">>
Ellipsis == <<".", ".", ".">>
Gestures == {<<"A">>, Unknown, Ellipsis}
Hazards == [event : {<<"s", "i", "r", "e", "n">>}, urgency : {"low", "critical"}]

TranscribeOutcomes == {Failure} \cup {Success(t) : t \in Transcripts}
EmotionOutcomes == {Failure} \cup {Success(e) : e \in Emotions}
DescribeOutcomes == {Failure} \cup {Success(d) : d \in Descriptions}
PredictSignOutcomes == {Failure} \cup {Success(g) : g \in Gestures}
DetectHazardOutcomes == {Failure} \cup {Success(h) : h \in Hazards}

\* ------------------------------------------------------------------ strings

LowerCase == <<"a", "b", "c", "d", "e", "f", "g", "h", "i", "j", "k", "l", "m",
               "n", "o", "p", "q", "r", "s", "t", "u", "v", "w", "x", "y", "z">>
UpperCase == <<"A", "B", "C", "D", "E", "F", "G", "H", "I", "J", "K", "L", "M",
               "N", "O", "P", "Q", "R", "S", "T", "U", "V", "W", "X", "Y", "Z">>

\* String.prototype.toUpperCase, character by character.
ToUpperChar(c) ==
    IF \E i \in 1..26 : LowerCase[i] = c
    THEN UpperCase[CHOOSE i \in 1..26 : LowerCase[i] = c]
    ELSE c

ToUpperCase(s) == [i \in 1..Len(s) |-> ToUpperChar(s[i])]

AudioErrorText == <<"A", "u", "d", "i", "o", " ", "E", "r", "r", "o", "r">>
ImageErrorText == <<"I", "m", "a", "g", "e", " ", "E", "r", "r", "o", "r">>
ToneIs == <<".", " ", "T", "h", "e", " ", "t", "o", "n", "e", " ", "i", "s", " ">>
YouSigned == <<"Y", "o", "u", " ", "s", "i", "g", "n", "e", "d", ":", " ">>
AslPrefix == <<"[", "A", "S", "L", "]", ":", " ">>
\* " <warning sign>  HAZARD DETECTED: "; the emoji is one element.
HazardPrefix == <<" ", "(!)", " ", " ", "H", "A", "Z", "A", "R", "D", " ",
                  "D", "E", "T", "E", "C", "T", "E", "D", ":", " ">>

\* ------------------------------------------------------------------ state

VARIABLES
    connected,      \* ids of the sockets whose connection is open
    closed,         \* ids of the sockets that have disconnected (ids are never reused)
    activeUsers,    \* the Map socket.id -> profile, as its entries in insertion order
    tasks,          \* the async handler invocations, in the order they were issued
    inbox,          \* per socket, the receive_message events it has been sent, in order
    network_update  \* the last network_update emission: its payload and its recipients

vars == <<connected, closed, activeUsers, tasks, inbox, network_update>>

\* ------------------------------------------------------------------ the Map

Has(m, k) == \E i \in 1..Len(m) : m[i][1] = k
Get(m, k) == m[CHOOSE i \in 1..Len(m) : m[i][1] = k][2]
\* Mutant: set always adds an entry.
MapSetAppend(m, k, v) == Append(m, <<k, v>>)
\* Map.prototype.set: a present key keeps its position, a new one goes last.
MapSet(m, k, v) ==
    IF Has(m, k)
    THEN [i \in 1..Len(m) |-> IF m[i][1] = k THEN <<k, v>> ELSE m[i]]
    ELSE Append(m, <<k, v>>)
\* Mutant: the entry is left in the map.
MapDeleteNothing(m, k) == m
\* Mutant: the whole map is cleared.
MapClear(m, k) == <<>>
MapDelete(m, k) == SelectSeq(m, LAMBDA e : e[1] # k)
\* Array.from(activeUsers.entries())
Entries(m) == m

\* ------------------------------------------------------------------ emitters

\* Mutant: the message goes out with io.emit.
IoToEveryone(room) == connected
\* io.to(room): every connected socket is in the room named by its own id.
IoTo(room) == {s \in connected : s = room}
\* io.emit: every connected socket.
IoAll == connected
\* socket.emit: the socket itself, when its connection is still open.
SocketEmit(s) == {s} \cap connected
\* Mutant: the annotation goes out with io.emit.
SocketBroadcastAll(s) == connected
\* socket.broadcast.emit: every connected socket but this one.
SocketBroadcast(s) == connected \ {s}

\* Mutant: the event is written twice.
SendTwice(box, recipients, msg) ==
    [s \in SocketIds |-> IF s \in recipients THEN box[s] \o <<msg, msg>> ELSE box[s]]

Send(box, recipients, msg) ==
    [s \in SocketIds |-> IF s \in recipients THEN Append(box[s], msg) ELSE box[s]]

\* ------------------------------------------------------------------ senseFuseProcess

NoMeta == {}
PassThrough(content, type) == [content |-> content, type |-> type, meta |-> NoMeta]
\* Mutant: the catch of line 43 keeps the type 'audio'.
AudioErrorAsAudio == [content |-> AudioErrorText, type |-> "audio", meta |-> NoMeta]
AudioError == [content |-> AudioErrorText, type |-> "text", meta |-> NoMeta]
ImageError == [content |-> ImageErrorText, type |-> "text", meta |-> NoMeta]

\* Mutant: the tag without toUpperCase().
EmotionTagAsIs(resp) ==
    IF resp.ok THEN <<"[">> \o resp.data \o <<"]">> ELSE <<>>

\* Lines 32-36: "[" + emotion.toUpperCase() + "]", or "" when the call throws.
EmotionTag(resp) ==
    IF resp.ok THEN <<"[">> \o ToUpperCase(resp.data) \o <<"]">> ELSE <<>>

\* Line 38: `${text} ${emotionTag}`
FinalMsg(text, emotionTag) == text \o <<" ">> \o emotionTag

\* Lines 39-42.
AudioResult(disability, content, finalMsg) ==
    IF disability = "deaf"
    THEN [content |-> finalMsg, type |-> "text", meta |-> {<<"original_audio", TRUE>>}]
    ELSE [content |-> content, type |-> "audio", meta |-> {<<"transcription", finalMsg>>}]

\* Mutant: the description goes out as plain text.
DescribeResultAsText(resp) ==
    IF resp.ok
    THEN [content |-> resp.data, type |-> "text", meta |-> NoMeta]
    ELSE [content |-> ImageErrorText, type |-> "text", meta |-> NoMeta]

\* Lines 47-50.
DescribeResult(resp) ==
    IF resp.ok
    THEN [content |-> resp.data, type |-> "audio_synthesis_request", meta |-> NoMeta]
    ELSE ImageError

\* Mutant: the tone is narrated to every receiver.
TextResultNarrateAll(disability, content, resp) ==
    IF resp.ok
    THEN [content |-> content \o ToneIs \o resp.data \o <<".">>, type |-> "text",
          meta |-> {<<"auto_read", TRUE>>}]
    ELSE [content |-> content, type |-> "text", meta |-> NoMeta]

\* Lines 56-66, once the analyze_text call has answered.
TextResult(disability, content, resp) ==
    IF resp.ok
    THEN IF disability = "blind"
         THEN [content |-> content \o ToneIs \o resp.data \o <<".">>, type |-> "text",
               meta |-> {<<"auto_read", TRUE>>}]
         ELSE [content |-> content, type |-> "text", meta |-> NoMeta]
    ELSE PassThrough(content, "text")

\* Mutant: the audio branch is entered before the receiver is looked up.
FirstStageAudioFirst(m, receiverId, content, contentType) ==
    IF contentType = "audio" THEN "transcribe"
    ELSE IF ~Has(m, receiverId) THEN "done"
    ELSE IF Get(m, receiverId).disability = "blind" /\ contentType = "image" THEN "describe"
    ELSE IF contentType = "text" /\ Len(content) > 2 THEN "text_emotion"
    ELSE "done"

\* Mutant: the length test is content.length >= 2.
FirstStageFromTwo(m, receiverId, content, contentType) ==
    IF ~Has(m, receiverId) THEN "done"
    ELSE IF contentType = "audio" THEN "transcribe"
    ELSE IF Get(m, receiverId).disability = "blind" /\ contentType = "image" THEN "describe"
    ELSE IF contentType = "text" /\ Len(content) >= 2 THEN "text_emotion"
    ELSE "done"

\* Where senseFuseProcess first suspends: the call it awaits, or "done" when it
\* returns without awaiting anything.
FirstStage(m, receiverId, content, contentType) ==
    IF ~Has(m, receiverId) THEN "done"
    ELSE IF contentType = "audio" THEN "transcribe"
    ELSE IF Get(m, receiverId).disability = "blind" /\ contentType = "image" THEN "describe"
    ELSE IF contentType = "text" /\ Len(content) > 2 THEN "text_emotion"
    ELSE "done"

Endpoint(pc) ==
    CASE pc = "transcribe" -> "transcribe"
      [] pc = "audio_emotion" -> "analyze_text"
      [] pc = "describe" -> "describe"
      [] pc = "text_emotion" -> "analyze_text"
      [] pc = "predict_sign" -> "predict_sign"
      [] pc = "detect_hazard" -> "detect_hazard"

\* ------------------------------------------------------------------ tasks

\* One invocation of an async handler.  socket is the socket the handler is
\* registered on; disability is the local of senseFuseProcess read at line 26;
\* text the local of line 31; calls the axios.post calls issued so far; resp
\* their answers; out the value senseFuseProcess returned; emits the emit
\* calls the handler has made.
NewTask(kind, socket, target, content, type, disability, pc) ==
    [kind |-> kind, socket |-> socket, target |-> target, content |-> content,
     type |-> type, disability |-> disability, pc |-> pc, text |-> <<>>,
     calls |-> IF pc = "done" THEN <<>> ELSE <<Endpoint(pc)>>,
     resp |-> <<>>, out |-> <<>>, emits |-> <<>>]

TaskIds == 1..Len(tasks)

\* The receive_message event of lines 77-79 (the timestamp is not modelled);
\* task records which handler invocation emitted it.
ReceiveMessage(senderId, processed, i) ==
    [senderId |-> senderId, content |-> processed.content, type |-> processed.type,
     meta |-> processed.meta, task |-> i]

\* Lines 76-79 after senseFuseProcess has returned `processed`.
Deliver(i, t, processed) ==
    /\ tasks' = [tasks EXCEPT ![i] = [t EXCEPT !.pc = "done", !.out = <<processed>>,
                                               !.emits = <<"io.to">>]]
    /\ inbox' = Send(inbox, IoTo(t.target), ReceiveMessage(t.socket, processed, i))

\* ------------------------------------------------------------------ actions

Init ==
    /\ connected = {}
    /\ closed = {}
    /\ activeUsers = <<>>
    /\ tasks = <<>>
    /\ inbox = [s \in SocketIds |-> <<>>]
    /\ network_update = [payload |-> <<>>, to |-> {}]

\* io.on('connection'): a socket with a fresh id.  Ids are opaque, so the
\* sockets are named in the order they connect.
Connect(s) ==
    /\ s \notin connected \cup closed
    /\ \A i \in 1..MaxSockets :
          SocketName[i] = s => \A j \in 1..(i - 1) : SocketName[j] \in connected \cup closed
    /\ connected' = connected \cup {s}
    /\ UNCHANGED <<closed, activeUsers, tasks, inbox, network_update>>

\* socket.on('join_mesh')
JoinMesh(s, u) ==
    /\ s \in connected
    /\ activeUsers' = MapSet(activeUsers, s, u)
    /\ network_update' = [payload |-> Entries(activeUsers'), to |-> IoAll]
    /\ UNCHANGED <<connected, closed, tasks, inbox>>

\* Mutant: the snapshot is emitted before the entry is deleted.
DisconnectEmitFirst(s) ==
    /\ s \in connected
    /\ connected' = connected \ {s}
    /\ closed' = closed \cup {s}
    /\ network_update' = [payload |-> Entries(activeUsers), to |-> connected']
    /\ activeUsers' = MapDelete(activeUsers, s)
    /\ UNCHANGED <<tasks, inbox>>

\* socket.on('disconnect'): the connection is closed when the handler runs.
Disconnect(s) ==
    /\ s \in connected
    /\ connected' = connected \ {s}
    /\ closed' = closed \cup {s}
    /\ activeUsers' = MapDelete(activeUsers, s)
    /\ network_update' = [payload |-> Entries(activeUsers'), to |-> connected']
    /\ UNCHANGED <<tasks, inbox>>

\* socket.on('send_message'): runs senseFuseProcess up to its first await; when
\* it returns without awaiting, the emit follows in the same turn.
SendMessage(s, targetSocketId, content, type) ==
    /\ s \in connected
    /\ Len(tasks) < MaxTasks
    /\ LET pc == FirstStage(activeUsers, targetSocketId, content, type)
           disability == IF Has(activeUsers, targetSocketId)
                         THEN Get(activeUsers, targetSocketId).disability
                         ELSE "undefined"
           t == NewTask("send_message", s, targetSocketId, content, type, disability, pc)
           i == Len(tasks) + 1
       IN IF pc = "done"
          THEN LET processed == PassThrough(content, type)
               IN /\ tasks' = Append(tasks, [t EXCEPT !.out = <<processed>>,
                                                      !.emits = <<"io.to">>])
                  /\ inbox' = Send(inbox, IoTo(targetSocketId),
                                   ReceiveMessage(s, processed, i))
          ELSE /\ tasks' = Append(tasks, t)
               /\ UNCHANGED inbox
    /\ UNCHANGED <<connected, closed, activeUsers, network_update>>

\* Line 30 answers.
TranscribeDone(i, resp) ==
    /\ i \in TaskIds
    /\ tasks[i].pc = "transcribe"
    /\ LET t == [tasks[i] EXCEPT !.resp = Append(@, resp)]
       IN IF resp.ok
          THEN /\ tasks' = [tasks EXCEPT ![i] =
                              [t EXCEPT !.text = resp.data, !.pc = "audio_emotion",
                                        !.calls = Append(@, "analyze_text")]]
               /\ UNCHANGED inbox
          ELSE Deliver(i, t, AudioError)
    /\ UNCHANGED <<connected, closed, activeUsers, network_update>>

\* Mutant: the disability is read from the map again after the awaits.
AudioEmotionDoneRereads(i, resp) ==
    /\ i \in TaskIds
    /\ tasks[i].pc = "audio_emotion"
    /\ LET t == [tasks[i] EXCEPT !.resp = Append(@, resp)]
           finalMsg == FinalMsg(t.text, EmotionTag(resp))
           disability == IF Has(activeUsers, t.target)
                         THEN Get(activeUsers, t.target).disability
                         ELSE "undefined"
       IN Deliver(i, t, AudioResult(disability, t.content, finalMsg))
    /\ UNCHANGED <<connected, closed, activeUsers, network_update>>

\* Line 34 answers.
AudioEmotionDone(i, resp) ==
    /\ i \in TaskIds
    /\ tasks[i].pc = "audio_emotion"
    /\ LET t == [tasks[i] EXCEPT !.resp = Append(@, resp)]
           finalMsg == FinalMsg(t.text, EmotionTag(resp))
       IN Deliver(i, t, AudioResult(t.disability, t.content, finalMsg))
    /\ UNCHANGED <<connected, closed, activeUsers, network_update>>

\* Line 48 answers.
DescribeDone(i, resp) ==
    /\ i \in TaskIds
    /\ tasks[i].pc = "describe"
    /\ LET t == [tasks[i] EXCEPT !.resp = Append(@, resp)]
       IN Deliver(i, t, DescribeResult(resp))
    /\ UNCHANGED <<connected, closed, activeUsers, network_update>>

\* Mutant: the narration rule tests the sender's disability.
TextEmotionDoneSenderProfile(i, resp) ==
    /\ i \in TaskIds
    /\ tasks[i].pc = "text_emotion"
    /\ LET t == [tasks[i] EXCEPT !.resp = Append(@, resp)]
           disability == IF Has(activeUsers, t.socket)
                         THEN Get(activeUsers, t.socket).disability
                         ELSE "undefined"
       IN Deliver(i, t, TextResult(disability, t.content, resp))
    /\ UNCHANGED <<connected, closed, activeUsers, network_update>>

\* Line 56 answers.
TextEmotionDone(i, resp) ==
    /\ i \in TaskIds
    /\ tasks[i].pc = "text_emotion"
    /\ LET t == [tasks[i] EXCEPT !.resp = Append(@, resp)]
       IN Deliver(i, t, TextResult(t.disability, t.content, resp))
    /\ UNCHANGED <<connected, closed, activeUsers, network_update>>

\* socket.on('analyze_gesture_landmarks'), up to the await of line 83.
AnalyzeGestureLandmarks(s) ==
    /\ s \in connected
    /\ Len(tasks) < MaxTasks
    /\ tasks' = Append(tasks, NewTask("analyze_gesture_landmarks", s, "", <<>>, "",
                                      "undefined", "predict_sign"))
    /\ UNCHANGED <<connected, closed, activeUsers, inbox, network_update>>

\* Mutant: only "Unknown" is suppressed.
SuppressedUnknownOnly(letter) == letter = Unknown

\* Lines 84-88.
Suppressed(letter) == letter = Ellipsis \/ letter = Unknown

PredictSignDone(i, resp) ==
    /\ i \in TaskIds
    /\ tasks[i].pc = "predict_sign"
    /\ LET t == [tasks[i] EXCEPT !.resp = Append(@, resp), !.pc = "done"]
       IN IF resp.ok /\ ~Suppressed(resp.data)
          THEN LET own == [senderId |-> "AI", content |-> YouSigned \o resp.data,
                           type |-> "text", meta |-> NoMeta, task |-> i]
                   others == [senderId |-> t.socket, content |-> AslPrefix \o resp.data,
                              type |-> "text", meta |-> NoMeta, task |-> i]
               IN /\ tasks' = [tasks EXCEPT ![i] =
                                 [t EXCEPT !.emits = <<"socket.emit", "socket.broadcast.emit">>]]
                  /\ inbox' = Send(Send(inbox, SocketEmit(t.socket), own),
                                   SocketBroadcast(t.socket), others)
          ELSE /\ tasks' = [tasks EXCEPT ![i] = t]
               /\ UNCHANGED inbox
    /\ UNCHANGED <<connected, closed, activeUsers, network_update>>

\* socket.on('analyze_environment'), up to the await of line 92.
AnalyzeEnvironment(s) ==
    /\ s \in connected
    /\ Len(tasks) < MaxTasks
    /\ tasks' = Append(tasks, NewTask("analyze_environment", s, "", <<>>, "",
                                      "undefined", "detect_hazard"))
    /\ UNCHANGED <<connected, closed, activeUsers, inbox, network_update>>

\* Mutant: any urgency raises the alert.
AnyUrgency(resp) == resp.ok

\* Line 93.
IsCritical(resp) == resp.ok /\ resp.data.urgency = "critical"

\* Lines 93-96.
DetectHazardDone(i, resp) ==
    /\ i \in TaskIds
    /\ tasks[i].pc = "detect_hazard"
    /\ LET t == [tasks[i] EXCEPT !.resp = Append(@, resp), !.pc = "done"]
       IN IF IsCritical(resp)
          THEN LET alert == [senderId |-> "AI",
                             content |-> HazardPrefix \o ToUpperCase(resp.data.event),
                             type |-> "hazard", meta |-> NoMeta, task |-> i]
               IN /\ tasks' = [tasks EXCEPT ![i] = [t EXCEPT !.emits = <<"io.emit">>]]
                  /\ inbox' = Send(inbox, IoAll, alert)
          ELSE /\ tasks' = [tasks EXCEPT ![i] = t]
               /\ UNCHANGED inbox
    /\ UNCHANGED <<connected, closed, activeUsers, network_update>>

Next ==
    \/ \E s \in SocketIds : Connect(s)
    \/ \E s \in SocketIds, u \in Profiles : JoinMesh(s, u)
    \/ \E s \in SocketIds : Disconnect(s)
    \/ \E s \in SocketIds, r \in SocketIds, p \in Payloads :
          SendMessage(s, r, p.content, p.type)
    \/ \E i \in 1..MaxTasks, r \in TranscribeOutcomes : TranscribeDone(i, r)
    \/ \E i \in 1..MaxTasks, r \in EmotionOutcomes : AudioEmotionDone(i, r)
    \/ \E i \in 1..MaxTasks, r \in DescribeOutcomes : DescribeDone(i, r)
    \/ \E i \in 1..MaxTasks, r \in EmotionOutcomes : TextEmotionDone(i, r)
    \/ \E s \in SocketIds : AnalyzeGestureLandmarks(s)
    \/ \E i \in 1..MaxTasks, r \in PredictSignOutcomes : PredictSignDone(i, r)
    \/ \E s \in SocketIds : AnalyzeEnvironment(s)
    \/ \E i \in 1..MaxTasks, r \in DetectHazardOutcomes : DetectHazardDone(i, r)

Spec == Init /\ [][Next]_vars

\* The axios.post calls are made without a timeout (axios waits without limit
\* by default): a call the service never answers stays pending for ever.
Pending(i) ==
    i \in TaskIds /\ tasks[i].pc \in {"transcribe", "audio_emotion", "describe",
                                      "text_emotion", "predict_sign", "detect_hazard"}

Hang(i) ==
    /\ Pending(i)
    /\ tasks' = [tasks EXCEPT ![i].pc = "hung"]
    /\ UNCHANGED <<connected, closed, activeUsers, inbox, network_update>>

\* The call handler invocation i awaits is answered and its continuation runs.
Answer(i) ==
    \/ \E r \in TranscribeOutcomes : TranscribeDone(i, r)
    \/ \E r \in EmotionOutcomes : AudioEmotionDone(i, r)
    \/ \E r \in DescribeOutcomes : DescribeDone(i, r)
    \/ \E r \in EmotionOutcomes : TextEmotionDone(i, r)
    \/ \E r \in PredictSignOutcomes : PredictSignDone(i, r)
    \/ \E r \in DetectHazardOutcomes : DetectHazardDone(i, r)

LiveNext ==
    \/ Next
    \/ \E i \in 1..MaxTasks : Hang(i)

\* Fair scheduling: a pending call that the service does answer is answered
\* in the end, and the event loop then runs the continuation.
LiveSpec ==
    /\ Init
    /\ [][LiveNext]_vars
    /\ \A i \in 1..MaxTasks : WF_vars(Answer(i))

\* ------------------------------------------------------------------ properties

IsSend(i) == tasks[i].kind = "send_message"
Done(i) == tasks[i].pc = "done"
\* The receiver was in the map when the pipeline started (line 24).
HadReceiver(i) == tasks[i].disability # "undefined"
\* The receive_message events of handler invocation i that socket s was sent.
Got(s, i) == SelectSeq(inbox[s], LAMBDA m : m.task = i)
\* Handler invocation i completes in this step.
Completes(i) == i \in 1..Len(tasks') /\ tasks'[i].pc = "done" /\ (i \in TaskIds => ~Done(i))

Hello == <<"h", "e", "l", "l", "o">>
Happy == <<"h", "a", "p", "p", "y">>
HelloHappy == <<"h", "e", "l", "l", "o", " ", "[", "H", "A", "P", "P", "Y", "]">>

\* C1: for every ordered pair (sender A, receiver B), the receive_message
\* events B gets from A's send_message calls arrive in the order A issued
\* them (the order of the handler invocations), whatever the latency of the
\* inference calls.
C1_PairOrder ==
    \A b \in SocketIds : \A j, k \in 1..Len(inbox[b]) :
        LET mj == inbox[b][j]
            mk == inbox[b][k]
        IN (/\ j < k
            /\ IsSend(mj.task) /\ IsSend(mk.task)
            /\ tasks[mj.task].socket = tasks[mk.task].socket)
           => mj.task < mk.task

\* C2: audio to a deaf receiver, Transcribe answers t and AnalyzeEmotion
\* answers e: the message delivered is {content: t + " [" + uppercase(e) + "]",
\* type: text, meta: {original_audio: true}}; "hello"/"happy" gives
\* "hello [HAPPY]".
C2_AudioDeaf ==
    \A i \in TaskIds :
        (/\ IsSend(i) /\ Done(i) /\ tasks[i].type = "audio"
         /\ tasks[i].disability = "deaf"
         /\ Len(tasks[i].resp) = 2 /\ tasks[i].resp[1].ok /\ tasks[i].resp[2].ok)
        => LET t == tasks[i].resp[1].data
               e == tasks[i].resp[2].data
               want == [content |-> t \o <<" ", "[">> \o ToUpperCase(e) \o <<"]">>,
                        type |-> "text", meta |-> {<<"original_audio", TRUE>>}]
           IN /\ tasks[i].out = <<want>>
              /\ (t = Hello /\ e = Happy) => want.content = HelloHappy
              /\ \A s \in SocketIds : \A n \in 1..Len(Got(s, i)) :
                    /\ s = tasks[i].target
                    /\ Got(s, i)[n] = ReceiveMessage(tasks[i].socket, want, i)

C2_Witness ==
    \E i \in TaskIds :
        /\ IsSend(i) /\ Done(i) /\ tasks[i].type = "audio" /\ tasks[i].disability = "deaf"
        /\ tasks[i].resp = <<Success(Hello), Success(Happy)>>
        /\ Len(Got(tasks[i].target, i)) = 1
        /\ Got(tasks[i].target, i)[1].content = HelloHappy

\* C3: audio, any receiver profile, Transcribe fails: the message delivered is
\* {content: "Audio Error", type: text} without meta, and no AnalyzeEmotion
\* call is issued for that message.
C3_AudioError ==
    \A i \in TaskIds :
        (/\ IsSend(i) /\ tasks[i].type = "audio" /\ HadReceiver(i)
         /\ Len(tasks[i].resp) >= 1 /\ ~tasks[i].resp[1].ok)
        => LET want == [content |-> <<"A", "u", "d", "i", "o", " ", "E", "r", "r", "o", "r">>,
                        type |-> "text", meta |-> {}]
           IN /\ Done(i)
              /\ tasks[i].calls = <<"transcribe">>
              /\ tasks[i].out = <<want>>
              /\ \A s \in SocketIds : \A n \in 1..Len(Got(s, i)) :
                    /\ s = tasks[i].target
                    /\ Got(s, i)[n] = ReceiveMessage(tasks[i].socket, want, i)

C3_Witness ==
    \E i \in TaskIds :
        /\ IsSend(i) /\ tasks[i].type = "audio" /\ tasks[i].disability = "none"
        /\ tasks[i].resp = <<Failure>>
        /\ Len(Got(tasks[i].target, i)) = 1
        /\ Got(tasks[i].target, i)[1].content = AudioErrorText

\* The spec's enum member synth_request is the type the code spells
\* 'audio_synthesis_request' (line 49; the client tests the same string).
synth_request == "audio_synthesis_request"

\* C4: image to a blind receiver: exactly one Describe call and no other
\* inference call; the message delivered is {content: description, type:
\* synth_request} when Describe succeeds, {content: "Image Error", type: text}
\* when it fails.
C4_ImageBlind ==
    \A i \in TaskIds :
        (IsSend(i) /\ tasks[i].type = "image" /\ tasks[i].disability = "blind")
        => /\ tasks[i].calls = <<"describe">>
           /\ Done(i) =>
                LET r == tasks[i].resp[1]
                    want == IF r.ok
                            THEN [content |-> r.data, type |-> synth_request, meta |-> {}]
                            ELSE [content |-> <<"I", "m", "a", "g", "e", " ",
                                                "E", "r", "r", "o", "r">>,
                                  type |-> "text", meta |-> {}]
                IN /\ Len(tasks[i].resp) = 1
                   /\ tasks[i].out = <<want>>
                   /\ \A s \in SocketIds : \A n \in 1..Len(Got(s, i)) :
                         /\ s = tasks[i].target
                         /\ Got(s, i)[n] = ReceiveMessage(tasks[i].socket, want, i)

C4_Witness ==
    \E i, j \in TaskIds :
        /\ IsSend(i) /\ tasks[i].type = "image" /\ tasks[i].disability = "blind"
        /\ IsSend(j) /\ tasks[j].type = "image" /\ tasks[j].disability = "blind"
        /\ tasks[i].resp = <<Failure>> /\ Len(Got(tasks[i].target, i)) = 1
        /\ tasks[j].resp # <<>> /\ tasks[j].resp[1].ok
        /\ Len(Got(tasks[j].target, j)) = 1
        /\ Got(tasks[j].target, j)[1].type = "audio_synthesis_request"

\* C5: text of length <= 2, any receiver profile (blind included): delivered
\* with content and type unchanged and no meta, and no inference call is made.
C5_ShortText ==
    \A i \in TaskIds :
        (/\ IsSend(i) /\ tasks[i].type = "text" /\ Len(tasks[i].content) <= 2
         /\ HadReceiver(i))
        => LET want == [content |-> tasks[i].content, type |-> "text", meta |-> {}]
           IN /\ Done(i)
              /\ tasks[i].calls = <<>>
              /\ tasks[i].out = <<want>>
              /\ \A s \in SocketIds : \A n \in 1..Len(Got(s, i)) :
                    /\ s = tasks[i].target
                    /\ Got(s, i)[n] = ReceiveMessage(tasks[i].socket, want, i)

C5_Witness ==
    \E i \in TaskIds :
        /\ IsSend(i) /\ tasks[i].type = "text" /\ Len(tasks[i].content) = 2
        /\ tasks[i].disability = "blind"
        /\ Len(Got(tasks[i].target, i)) = 1
        /\ Got(tasks[i].target, i)[1].content = tasks[i].content

IsGesture(i) == tasks[i].kind = "analyze_gesture_landmarks"
IsProbe(i) == tasks[i].kind = "analyze_environment"
\* Socket s was sent some event by handler invocation i.
Reached(s, i) == Len(Got(s, i)) > 0

\* C6: a gesture_buffer event makes the handler emit events if and only if
\* PredictSign succeeds with a label that is neither "Unknown" nor "..."; in
\* every other case nothing is sent to the sender or to anyone else.
C6_GestureGate ==
    \A i \in TaskIds :
        IsGesture(i) =>
            LET real == /\ Done(i)
                        /\ tasks[i].resp[1].ok
                        /\ tasks[i].resp[1].data # <<"U", "n", "k", "n", "o", "w", "n">>
                        /\ tasks[i].resp[1].data # <<".", ".", ".">>
            IN /\ (tasks[i].emits # <<>>) <=> real
               /\ ~real => \A s \in SocketIds : ~Reached(s, i)

C6_Witness ==
    \E i, k \in TaskIds :
        /\ IsGesture(i) /\ tasks[i].resp = <<Success(Unknown)>> /\ tasks[i].emits = <<>>
        /\ Cardinality(connected) = 2
        /\ IsGesture(k) /\ tasks[k].resp = <<Success(<<"A">>)>>
        /\ \A s \in connected : Reached(s, k)

\* What socket s is sent in this step: inbox'[s] extends inbox[s] by it.
Extends(s) == SubSeq(inbox'[s], 1, Len(inbox[s])) = inbox[s]
NewFor(s) == SubSeq(inbox'[s], Len(inbox[s]) + 1, Len(inbox'[s]))
\* The last Len(label) characters of content are the label in upper case.
CarriesLabel(content, label) ==
    /\ Len(content) >= Len(label)
    /\ SubSeq(content, Len(content) - Len(label) + 1, Len(content)) = ToUpperCase(label)
    /\ label = <<"s", "i", "r", "e", "n">> =>
          SubSeq(content, Len(content) - 4, Len(content)) = <<"S", "I", "R", "E", "N">>

\* C7: an audio_probe event causes a hazard alert if and only if DetectHazard
\* succeeds with urgency critical; then one alert of type hazard carrying the
\* event label goes to every connected socket, the prober included, and in
\* every other case nothing is sent to anyone.
C7_HazardStep ==
    \A i \in TaskIds :
        (IsProbe(i) /\ Completes(i)) =>
            LET r == tasks'[i].resp[1]
            IN IF r.ok /\ r.data.urgency = "critical"
               THEN \A s \in SocketIds :
                      /\ Extends(s)
                      /\ IF s \in connected
                         THEN /\ Len(NewFor(s)) = 1
                              /\ NewFor(s)[1].type = "hazard"
                              /\ NewFor(s)[1].task = i
                              /\ CarriesLabel(NewFor(s)[1].content, r.data.event)
                         ELSE NewFor(s) = <<>>
               ELSE inbox' = inbox

C7_HazardBroadcast == [][C7_HazardStep]_vars

C7_Witness ==
    \E i, j \in TaskIds :
        /\ IsProbe(i) /\ Done(i) /\ tasks[i].resp[1].ok
        /\ tasks[i].resp[1].data.urgency = "critical"
        /\ Cardinality(connected) = 2
        /\ \A s \in connected : Len(Got(s, i)) = 1 /\ Got(s, i)[1].type = "hazard"
        /\ IsProbe(j) /\ Done(j) /\ tasks[j].resp[1].ok
        /\ tasks[j].resp[1].data.urgency = "low"
        /\ \A s \in SocketIds : ~Reached(s, j)

\* C8: every presence snapshot broadcast equals the registry contents at the
\* instant of the broadcast: one entry per registered connection id, no
\* duplicate id, no entry for a connection that has left; the registry does
\* not change between its mutation and the broadcast.
C8_SnapshotExact ==
    LET snap == network_update.payload
    IN /\ snap = Entries(activeUsers)
       /\ \A j, k \in 1..Len(snap) : snap[j][1] = snap[k][1] => j = k
       /\ \A j \in 1..Len(snap) : snap[j][1] \in connected /\ snap[j][1] \notin closed
       /\ \A s \in SocketIds : Has(activeUsers, s) <=> \E j \in 1..Len(snap) : snap[j][1] = s

\* A joins, B joins, A leaves: the last snapshot has exactly one entry, B's.
C8_Witness ==
    /\ closed = {"s1"}
    /\ connected = {"s2"}
    /\ Len(network_update.payload) = 1
    /\ network_update.payload[1][1] = "s2"
    /\ network_update.to = {"s2"}

\* C9: when a gesture is recognised, the sending socket is sent exactly one
\* first-person confirmation and not the third-person annotation, and every
\* other connected socket exactly one third-person annotation and not the
\* confirmation (a socket that is no longer connected is sent nothing).
C9_EchoStep ==
    \A i \in TaskIds :
        (/\ IsGesture(i) /\ Completes(i)
         /\ tasks'[i].resp[1].ok /\ ~Suppressed(tasks'[i].resp[1].data))
        => LET letter == tasks'[i].resp[1].data
               first == [senderId |-> "AI", content |-> YouSigned \o letter,
                         type |-> "text", meta |-> {}, task |-> i]
               third == [senderId |-> tasks[i].socket, content |-> AslPrefix \o letter,
                         type |-> "text", meta |-> {}, task |-> i]
           IN \A s \in SocketIds :
                /\ Extends(s)
                /\ NewFor(s) = IF s \notin connected THEN <<>>
                               ELSE IF s = tasks[i].socket THEN <<first>>
                               ELSE <<third>>

C9_GestureEcho == [][C9_EchoStep]_vars

C9_Witness ==
    \E i \in TaskIds : \E s \in connected :
        /\ IsGesture(i) /\ Done(i) /\ tasks[i].socket \in connected
        /\ s # tasks[i].socket
        /\ Len(Got(tasks[i].socket, i)) = 1
        /\ Got(tasks[i].socket, i)[1].senderId = "AI"
        /\ Len(Got(s, i)) = 1
        /\ Got(s, i)[1].senderId = tasks[i].socket

\* C10: if the receiver of a send_message has disconnected before the
\* transformed message is ready, the message is delivered to no connection and
\* the sender is sent nothing either.
C10_DropStep ==
    \A i \in 1..Len(tasks') :
        (/\ tasks'[i].kind = "send_message" /\ Completes(i)
         /\ tasks'[i].target \in closed)
        => inbox' = inbox

C10_ReceiverGone == [][C10_DropStep]_vars

C10_Witness ==
    \E i \in TaskIds :
        /\ IsSend(i) /\ Done(i) /\ HadReceiver(i) /\ tasks[i].resp # <<>>
        /\ tasks[i].target \in closed
        /\ tasks[i].socket \in connected
        /\ \A s \in SocketIds : ~Reached(s, i)

\* C12: each send_message produces at most one delivered message, sent on the
\* addressed receiver's connection only: never twice, never to a third socket,
\* and to the sender only when the sender addressed itself.
C12_AtMostOnce ==
    \A i \in TaskIds :
        IsSend(i) =>
            /\ \A s \in SocketIds : Reached(s, i) => (s = tasks[i].target /\ Done(i))
            /\ Len(Got(tasks[i].target, i)) <= 1

C12_Witness ==
    \E i \in TaskIds :
        /\ IsSend(i) /\ Done(i) /\ tasks[i].resp # <<>>
        /\ tasks[i].socket # tasks[i].target
        /\ {tasks[i].socket, tasks[i].target} \subseteq connected
        /\ Len(Got(tasks[i].target, i)) = 1
        /\ ~Reached(tasks[i].socket, i)

\* C13: join never fails and is idempotent: a join leaves exactly one entry
\* for the connection, carrying the profile given; a join that repeats the
\* stored profile leaves the registry as it was; every join broadcasts the
\* updated snapshot to all connected sockets.
C13_NeverFails == \A s \in connected, u \in Profiles : ENABLED JoinMesh(s, u)

C13_JoinStep ==
    \A s \in SocketIds, u \in Profiles :
        JoinMesh(s, u) =>
            /\ Cardinality({j \in 1..Len(activeUsers') : activeUsers'[j][1] = s}) = 1
            /\ \E j \in 1..Len(activeUsers') : activeUsers'[j] = <<s, u>>
            /\ (\E j \in 1..Len(activeUsers) : activeUsers[j] = <<s, u>>)
                  => activeUsers' = activeUsers
            /\ network_update'.payload = activeUsers'
            /\ network_update'.to = connected

C13_JoinIdempotent == []C13_NeverFails /\ [][C13_JoinStep]_vars

\* s1 was registered as deaf before s2 connected (its message came before an
\* alert that s2 missed), and the last snapshot, sent to both, is a join of s1
\* that leaves the single entry s1 -> deaf.
C13_Witness ==
    /\ connected = {"s1", "s2"} /\ closed = {}
    /\ Len(tasks) = 2
    /\ IsSend(1) /\ tasks[1].target = "s1" /\ tasks[1].disability = "deaf"
    /\ IsProbe(2) /\ Done(2)
    /\ Len(inbox["s1"]) = 2 /\ inbox["s1"][1].task = 1 /\ inbox["s1"][2].task = 2
    /\ inbox["s2"] = <<>>
    /\ activeUsers = <<<<"s1", [name |-> "user", disability |-> "deaf"]>>>>
    /\ network_update = [payload |-> activeUsers, to |-> {"s1", "s2"}]

\* C14: a disconnect of a registered connection removes exactly its entry and
\* leaves every other entry unchanged; a disconnect of a connection that never
\* joined leaves the registry unchanged; either way the updated snapshot is
\* broadcast to the remaining sockets.
C14_LeaveStep ==
    \A s \in SocketIds :
        Disconnect(s) =>
            /\ ~Has(activeUsers', s)
            /\ \A k \in SocketIds \ {s} :
                  /\ Has(activeUsers', k) <=> Has(activeUsers, k)
                  /\ Has(activeUsers, k) => Get(activeUsers', k) = Get(activeUsers, k)
            /\ Len(activeUsers') = Len(activeUsers) - (IF Has(activeUsers, s) THEN 1 ELSE 0)
            /\ ~Has(activeUsers, s) => activeUsers' = activeUsers
            /\ network_update'.payload = activeUsers'
            /\ network_update'.to = connected \ {s}

C14_LeaveFrame == [][C14_LeaveStep]_vars

\* A connection that was registered (a pipeline read its profile) has left;
\* the entry of the one that remains is still there.
C14_Witness ==
    \E i \in TaskIds : \E k \in connected :
        /\ IsSend(i) /\ HadReceiver(i) /\ tasks[i].target \in closed
        /\ ~Has(activeUsers, tasks[i].target)
        /\ Has(activeUsers, k)
        /\ network_update = [payload |-> activeUsers, to |-> connected]

\* C15: the profile stored for a connection never changes between its first
\* join and its disconnect, whatever events arrive in between (further join
\* events included).
C15_ProfileStep ==
    \A s \in SocketIds :
        (Has(activeUsers, s) /\ Has(activeUsers', s))
        => Get(activeUsers', s) = Get(activeUsers, s)

C15_ProfileImmutable == [][C15_ProfileStep]_vars

\* C16: audio, Transcribe answers t, AnalyzeEmotion fails: the composed text is
\* exactly t, delivered as content to a deaf receiver and as
\* meta.transcription otherwise; the message is still delivered.
C16_NoTagIsTranscript ==
    \A i \in TaskIds :
        (/\ IsSend(i) /\ Done(i) /\ tasks[i].type = "audio" /\ HadReceiver(i)
         /\ Len(tasks[i].resp) = 2 /\ tasks[i].resp[1].ok /\ ~tasks[i].resp[2].ok)
        => LET t == tasks[i].resp[1].data
           IN /\ Len(tasks[i].out) = 1
              /\ IF tasks[i].disability = "deaf"
                 THEN tasks[i].out[1].content = t
                 ELSE tasks[i].out[1].meta = {<<"transcription", t>>}

\* The finalText of the routing table: the transcript, followed by " [" +
\* uppercase(emotion) + "]" when the emotion call answered.
FinalText(t, emo) ==
    IF emo.ok THEN t \o <<" ", "[">> \o ToUpperCase(emo.data) \o <<"]">> ELSE t

\* C17: audio to a receiver that is not deaf, Transcribe succeeds: the message
\* delivered keeps the original audio as content, has type audio and carries
\* meta {transcription: finalText}; the audio rule comes before every other
\* rule, whatever the profile.
C17_AudioKept ==
    \A i \in TaskIds :
        (/\ IsSend(i) /\ Done(i) /\ tasks[i].type = "audio" /\ HadReceiver(i)
         /\ tasks[i].disability # "deaf"
         /\ Len(tasks[i].resp) = 2 /\ tasks[i].resp[1].ok)
        => /\ tasks[i].calls = <<"transcribe", "analyze_text">>
           /\ tasks[i].out =
                 <<[content |-> tasks[i].content, type |-> "audio",
                    meta |-> {<<"transcription",
                                FinalText(tasks[i].resp[1].data, tasks[i].resp[2])>>}]>>

HeyToneHappy == <<"h", "e", "y", ".", " ", "T", "h", "e", " ", "t", "o", "n", "e", " ",
                  "i", "s", " ", "h", "a", "p", "p", "y", ".">>

\* C18: text longer than 2: when AnalyzeEmotion answers e and the receiver is
\* blind the message delivered is {content: content + ". The tone is " + e +
\* ".", type: text, meta: {auto_read: true}}; when it answers and the receiver
\* is not blind, or when it fails, content and type go out unchanged, no meta.
C18_LongText ==
    \A i \in TaskIds :
        (/\ IsSend(i) /\ Done(i) /\ tasks[i].type = "text" /\ HadReceiver(i)
         /\ Len(tasks[i].content) > 2)
        => LET c == tasks[i].content
               r == tasks[i].resp[1]
               want == IF r.ok /\ tasks[i].disability = "blind"
                       THEN [content |-> c \o <<".", " ", "T", "h", "e", " ", "t", "o", "n",
                                                "e", " ", "i", "s", " ">> \o r.data \o <<".">>,
                             type |-> "text", meta |-> {<<"auto_read", TRUE>>}]
                       ELSE [content |-> c, type |-> "text", meta |-> {}]
           IN /\ Len(tasks[i].resp) = 1
              /\ tasks[i].calls = <<"analyze_text">>
              /\ tasks[i].out = <<want>>
              /\ (c = <<"h", "e", "y">> /\ r = Success(Happy) /\ tasks[i].disability = "blind")
                    => want.content = HeyToneHappy
              /\ \A s \in SocketIds : \A n \in 1..Len(Got(s, i)) :
                    /\ s = tasks[i].target
                    /\ Got(s, i)[n] = ReceiveMessage(tasks[i].socket, want, i)

C18_Witness ==
    \E i, j \in TaskIds :
        /\ IsSend(i) /\ tasks[i].type = "text" /\ tasks[i].disability = "blind"
        /\ tasks[i].resp = <<Success(Happy)>>
        /\ Len(Got(tasks[i].target, i)) = 1
        /\ Got(tasks[i].target, i)[1].content = HeyToneHappy
        /\ IsSend(j) /\ tasks[j].type = "text" /\ tasks[j].disability = "blind"
        /\ tasks[j].resp = <<Failure>>
        /\ Len(Got(tasks[j].target, j)) = 1
        /\ Got(tasks[j].target, j)[1].content = <<"h", "e", "y">>

\* senseFuseProcess as a function of the message, the disability read when the
\* pipeline started and the answers of its calls.
Transform(content, type, disability, resp) ==
    IF type = "audio"
    THEN IF resp[1].ok
         THEN AudioResult(disability, content, FinalMsg(resp[1].data, EmotionTag(resp[2])))
         ELSE AudioError
    ELSE IF disability = "blind" /\ type = "image" THEN DescribeResult(resp[1])
    ELSE IF type = "text" /\ Len(content) > 2 THEN TextResult(disability, content, resp[1])
    ELSE PassThrough(content, type)

Route(content, type, disability, resp) ==
    IF type = "audio"
    THEN IF resp[1].ok THEN <<"transcribe", "analyze_text">> ELSE <<"transcribe">>
    ELSE IF disability = "blind" /\ type = "image" THEN <<"describe">>
    ELSE IF type = "text" /\ Len(content) > 2 THEN <<"analyze_text">>
    ELSE <<>>

\* C19: the transformation uses the receiver's profile as it was when the
\* pipeline started: the calls made and the message produced are those of
\* that profile, also when the receiver left or joined again with another
\* profile while the calls were in flight.
C19_ProfileAtStart ==
    \A i \in TaskIds :
        (IsSend(i) /\ Done(i) /\ HadReceiver(i))
        => /\ tasks[i].out = <<Transform(tasks[i].content, tasks[i].type,
                                         tasks[i].disability, tasks[i].resp)>>
           /\ tasks[i].calls = Route(tasks[i].content, tasks[i].type,
                                     tasks[i].disability, tasks[i].resp)

\* The first message was sent while s2 was deaf; s2 then joined again as blind
\* (the second message, which overtook the first, saw it so); the first is
\* delivered in the form for a deaf receiver.
C19_Witness ==
    /\ Len(tasks) = 2 /\ IsSend(1) /\ IsSend(2)
    /\ tasks[1].target = "s2" /\ tasks[2].target = "s2"
    /\ tasks[1].type = "audio" /\ tasks[1].disability = "deaf"
    /\ tasks[2].disability = "blind"
    /\ Has(activeUsers, "s2") /\ Get(activeUsers, "s2").disability = "blind"
    /\ Len(inbox["s2"]) = 2 /\ inbox["s2"][1].task = 2 /\ inbox["s2"][2].task = 1
    /\ inbox["s2"][2].meta = {<<"original_audio", TRUE>>}

\* C20: a message whose target is not in the registry at delivery time (a
\* connection that has not joined, for one) is delivered to no one.
C20_UnknownStep ==
    \A i \in 1..Len(tasks') :
        (/\ tasks'[i].kind = "send_message" /\ Completes(i)
         /\ ~Has(activeUsers, tasks'[i].target))
        => inbox' = inbox

C20_UnknownReceiverDropped == [][C20_UnknownStep]_vars

\* C11: every send_message whose receiver stays connected is eventually
\* followed by a receive_message event to that receiver, under fair
\* scheduling, also when an inference call for it never answers.
\* A send_message whose pipeline is under way is always one whose receiver was
\* registered, hence connected, when it was issued; one that returns without
\* awaiting is delivered in the same step.
C11_Sent(i) == i \in TaskIds /\ IsSend(i) /\ ~Done(i) /\ tasks[i].target \in connected
C11_Settled(i) ==
    /\ i \in TaskIds /\ IsSend(i)
    /\ tasks[i].target \notin connected \/ Reached(tasks[i].target, i)

C11_EventuallyDelivered ==
    \A i \in 1..MaxTasks : C11_Sent(i) ~> C11_Settled(i)

\* C21: every receive_message event sent to a connection (directed message,
\* gesture echo or hazard alert) has a type among text, audio, hazard and
\* synth_request, for each declared type text, audio, image and each receiver
\* profile, the pass-through of line 66 included.
FinalTypes == {"text", "audio", "hazard", synth_request}

C21_FinalTypeInEnum ==
    \A s \in SocketIds : \A k \in 1..Len(inbox[s]) : inbox[s][k].type \in FinalTypes

\* C22: when the sender of a send_message has disconnected while the calls of
\* that message were in flight, the calls still answer and the handler
\* completes, but its result is sent to no connection, the receiver included.
C22_SenderGoneStep ==
    \A i \in 1..Len(tasks') :
        (/\ tasks'[i].kind = "send_message" /\ Completes(i)
         /\ tasks'[i].resp # <<>>
         /\ tasks'[i].socket \in closed)
        => inbox' = inbox

C22_SenderGoneDropped == [][C22_SenderGoneStep]_vars

\* C23: the message a send_message produces is a function of its content, its
\* declared type, the receiver's profile read when the pipeline started and
\* the answers to its own calls, and of nothing else: it is the value of
\* Transform on these, two invocations that agree on them produce the same
\* content, type and meta whoever sent them and whatever became of the other
\* invocation, and that value is what the receiver is sent.
C23_Inputs(i) == <<tasks[i].content, tasks[i].type, tasks[i].disability, tasks[i].resp>>
\* senseFuseProcess with the lookup of lines 24-25: a receiver that is not in
\* the map has no profile ("undefined") and the message passes through.
Processed(content, type, disability, resp) ==
    IF disability = "undefined" THEN PassThrough(content, type)
    ELSE Transform(content, type, disability, resp)

C23_Deterministic ==
    /\ \A i \in TaskIds :
          (IsSend(i) /\ Done(i))
          => /\ tasks[i].out = <<Processed(tasks[i].content, tasks[i].type,
                                           tasks[i].disability, tasks[i].resp)>>
             /\ \A s \in SocketIds : \A k \in 1..Len(Got(s, i)) :
                   [content |-> Got(s, i)[k].content, type |-> Got(s, i)[k].type,
                    meta |-> Got(s, i)[k].meta] = tasks[i].out[1]
    /\ \A i, j \in TaskIds :
          (/\ IsSend(i) /\ Done(i) /\ IsSend(j) /\ Done(j)
           /\ C23_Inputs(i) = C23_Inputs(j))
          => tasks[i].out = tasks[j].out

\* A deaf sender and a blind sender each sent "hey" to the same blind receiver
\* and got the same answer from analyze_text: both messages are narrated.
C23_Witness ==
    /\ Len(tasks) = 2 /\ IsSend(1) /\ Done(1) /\ IsSend(2) /\ Done(2)
    /\ tasks[1].socket = "s1" /\ tasks[2].socket = "s2"
    /\ tasks[1].target = "s2" /\ tasks[2].target = "s2"
    /\ Has(activeUsers, "s1") /\ Get(activeUsers, "s1").disability = "deaf"
    /\ Has(activeUsers, "s2") /\ Get(activeUsers, "s2").disability = "blind"
    /\ C23_Inputs(1) = C23_Inputs(2)
    /\ tasks[1].resp = <<Success(Happy)>>
    /\ tasks[1].out = tasks[2].out
    /\ tasks[1].out[1].content = HeyToneHappy
    /\ Len(inbox["s2"]) = 2

\* C24: in every reachable state each key of activeUsers is the id of a
\* connection that is open: a connection that has closed has no entry, and
\* none of join_mesh, send_message, the gesture and environment handlers, or
\* an answer that arrives after the disconnect, puts one back.
Keys(m) == {m[k][1] : k \in 1..Len(m)}

C24_RegistryWithinConnected ==
    /\ Keys(activeUsers) \subseteq connected
    /\ Keys(activeUsers) \cap closed = {}

\* s2 joined (the pipeline found its profile), closed while the call of a
\* message addressed to it was pending, and the call answered afterwards; the
\* sender is still registered and s2 is not.
C24_Witness ==
    \E i \in TaskIds :
        /\ IsSend(i) /\ Done(i) /\ HadReceiver(i) /\ tasks[i].resp # <<>>
        /\ tasks[i].target = "s2" /\ "s2" \in closed
        /\ \A s \in SocketIds : ~Reached(s, i)
        /\ Keys(activeUsers) = {"s1"} /\ connected = {"s1"}

\* C25: when the receiver is not in activeUsers as the pipeline starts, then
\* for every declared type, audio and image included, no inference call is
\* made and senseFuseProcess returns the content and the declared type
\* unchanged, with no meta.
C25_NoReceiverPassThrough ==
    \A i \in TaskIds :
        (IsSend(i) /\ ~HadReceiver(i))
        => /\ tasks[i].calls = <<>> /\ tasks[i].resp = <<>>
           /\ Done(i)
           /\ tasks[i].out = <<[content |-> tasks[i].content, type |-> tasks[i].type,
                                meta |-> NoMeta]>>

\* A recording and a picture were sent to s2, which is connected and has not
\* joined; s1, the sender, is registered as blind.
C25_Witness ==
    /\ Len(tasks) = 2 /\ IsSend(1) /\ IsSend(2)
    /\ ~HadReceiver(1) /\ ~HadReceiver(2)
    /\ tasks[1].type = "audio" /\ tasks[2].type = "image"
    /\ tasks[1].target = "s2" /\ tasks[2].target = "s2"
    /\ "s2" \in connected /\ ~Has(activeUsers, "s2")
    /\ Has(activeUsers, "s1") /\ Get(activeUsers, "s1").disability = "blind"
    /\ tasks[1].out[1].content = Base64Blob /\ tasks[2].out[1].type = "image"

====
